---- MODULE Spec2Model ----
(***************************************************************************)
(* Model of static/js/script.js: the page initializer registered with      *)
(* $(document).ready and the six jQuery event handlers it attaches.        *)
(*                                                                         *)
(* The state is the part of the DOM the handlers read and write.  Strings  *)
(* whose characters matter (file names, the insurance code) are sequences  *)
(* of one-character tokens.  Every handler runs to completion (JavaScript  *)
(* is single threaded), so one event dispatch is one action; an element    *)
(* that had the listener attached n times runs the handler n times per     *)
(* event, in order, as jQuery does.                                        *)
(***************************************************************************)
EXTENDS Integers, Sequences, FiniteSets, TLC

VARIABLES
    ready,          \* number of times the ready callback has run
    sidebar,        \* #sidebar has class 'collapsed'
    content,        \* #content has class 'collapsed'
    dataTable,      \* per table: the options of every DataTable() call made on it
    insuranceCode,  \* value of input[name="InsuranceCode"]
    btn,            \* per button[type="submit"]: [disabled, html]
    pw,             \* the .input-group: [type of the input, classes of the <i>]
    upload,         \* input[type="file"]: [files, alerts raised in this dispatch]
    last            \* the event dispatched last: [ev, arg, pre]

vars == <<ready, sidebar, content, dataTable, insuranceCode, btn, pw, upload, last>>

----------------------------------------------------------------------------
\* Bounds of the model.

NumTables == 2        \* table elements on the page
NumForms == 2         \* form elements on the page
ButtonsPerForm == 2   \* button[type="submit"] elements inside each form
MaxLen == 2           \* longest string the user leaves in the insurance code field
MaxReady == 2         \* most invocations of the ready callback (SpecReinit only)

Tables == 1..NumTables
Forms == 1..NumForms
Buttons == Forms \X (1..ButtonsPerForm)

----------------------------------------------------------------------------
\* Generic helpers.

\* All sequences over S of length at most n.
StringsUpTo(S, n) == UNION {[1..k -> S] : k \in 0..n}

----------------------------------------------------------------------------
\* Sidebar toggle (script.js 3-5).

\* jQuery toggleClass on one element: adds the class if absent, else removes it.
toggleClass(has) == ~has

\* Mutant: the selector names only '#sidebar'.
SidebarHandlerSidebarOnly(s) ==
    [sidebar |-> toggleClass(s.sidebar), content |-> s.content]

\* $('#sidebar, #content').toggleClass('collapsed') toggles each matched element.
SidebarHandler(s) ==
    [sidebar |-> toggleClass(s.sidebar), content |-> toggleClass(s.content)]

----------------------------------------------------------------------------
\* DataTables initialisation (script.js 8-16).

pageLength == 10

\* The options object passed to DataTable().
DataTableOptions ==
    [pageLength |-> pageLength,
     lengthMenu |-> << <<10, 25, 50, 100, -1>>, <<10, 25, 50, 100, "All">> >>,
     responsive |-> TRUE]

\* $.fn.DataTable.isDataTable(t): t has been made a DataTable.
isDataTable(dt, t) == Len(dt[t]) > 0

\* Mutant: the isDataTable guard is missing.
InitTableUnguarded(dt, t) == [dt EXCEPT ![t] = Append(@, DataTableOptions)]

\* The body of the .each callback for table t.
InitTable(dt, t) ==
    IF ~isDataTable(dt, t)
      THEN [dt EXCEPT ![t] = Append(@, DataTableOptions)]
      ELSE dt

\* $('table').each(...): the callback on every table, in document order.
RECURSIVE EachTable(_, _)
EachTable(dt, t) ==
    IF t > NumTables THEN dt ELSE EachTable(InitTable(dt, t), t + 1)

----------------------------------------------------------------------------
\* Insurance code normaliser (script.js 19-21).

\* The characters the model types: a lower-case letter with an upper-case
\* form, an upper-case letter, and U+0138 LATIN SMALL LETTER KRA (general
\* category Ll, with no upper-case mapping in the Unicode character database).
Typed == {"a", "A", "kra"}

\* String.prototype.toUpperCase on one character (Unicode SpecialCasing).
UpperOfChar(c) ==
    CASE c = "a" -> <<"A">>
      [] OTHER -> <<c>>

\* Mutant: only the first character is upper-cased (capitalisation).
toUpperCaseFirstOnly(s) ==
    IF s = <<>> THEN <<>> ELSE UpperOfChar(Head(s)) \o Tail(s)

\* String.prototype.toUpperCase.
RECURSIVE toUpperCase(_)
toUpperCase(s) ==
    IF s = <<>> THEN <<>> ELSE UpperOfChar(Head(s)) \o toUpperCase(Tail(s))

\* this.value = this.value.toUpperCase()
InsuranceCodeHandler(value) == toUpperCase(value)

----------------------------------------------------------------------------
\* Submit guard (script.js 24-27).

ProcessingHtml == "<i class='fas fa-spinner fa-spin'></i> Processing..."

\* $(form).find('button[type="submit"]'): the submit buttons inside form f.
find(f) == {b \in Buttons : b[1] = f}

\* Mutant: every submit button of the page is selected, not those of this form.
SubmitHandlerAllForms(b, f) ==
    [x \in Buttons |-> [disabled |-> TRUE, html |-> ProcessingHtml]]

\* submitBtn.prop('disabled', true).html(...)
SubmitHandler(b, f) ==
    [x \in Buttons |->
        IF x \in find(f) THEN [disabled |-> TRUE, html |-> ProcessingHtml] ELSE b[x]]

----------------------------------------------------------------------------
\* Password visibility toggle (script.js 30-35).

\* toggleClass('fa-eye fa-eye-slash'): each named class is toggled on its own.
toggleClasses(classes, names) == (classes \ names) \cup (names \ classes)

\* Mutant: only 'fa-eye' is toggled on the icon.
ToggleHandlerEyeOnly(g) ==
    LET type == IF g.type = "password" THEN "text" ELSE "password"
    IN [type |-> type, icon |-> toggleClasses(g.icon, {"fa-eye"})]

\* The click handler of .toggle-password.
ToggleHandler(g) ==
    LET type == IF g.type = "password" THEN "text" ELSE "password"
    IN [type |-> type, icon |-> toggleClasses(g.icon, {"fa-eye", "fa-eye-slash"})]

----------------------------------------------------------------------------
\* File upload validation (script.js 38-53).

Kibi == 1024
LimitMB == 10
MiB == Kibi * Kibi

\* File names the user can pick, as character sequences: plain, upper-case and
\* mixed-case extensions, several dots, a trailing dot, no dot at all.
FileNames ==
    { <<"a", ".", "x", "l", "s", "x">>,
      <<"a", ".", "X", "L", "S">>,
      <<"a", ".", "b", ".", "x", "l", "s">>,
      <<"a", ".", "x", "l", "s", ".", "p", "d", "f">>,
      <<"a", ".", "p", "d", "f">>,
      <<"a", ".">>,
      <<"a">>,
      <<"x", "l", "s">> }

\* File sizes in bytes: exactly the limit, and one byte more.
FileSizes == {LimitMB * MiB, LimitMB * MiB + 1}

File == [name : FileNames, size : FileSizes]

\* this.files of an input without the 'multiple' attribute: empty or one File.
FileList == {<<>>} \cup {<<f>> : f \in File}

\* JavaScript numbers: an integer below 2^53 divided by a power of two is
\* exact in a double, so the quotient is kept as an exact fraction.
Number(n) == [num |-> n, den |-> 1]
Divide(q, d) == [num |-> q.num, den |-> q.den * d]
GreaterThan(q, n) == q.num > n * q.den

\* String.prototype.split(sep) for a one-character separator.
RECURSIVE split(_, _)
split(s, sep) ==
    IF \A i \in 1..Len(s) : s[i] # sep
      THEN <<s>>
      ELSE LET i == CHOOSE k \in 1..Len(s) :
                        s[k] = sep /\ \A j \in 1..(k - 1) : s[j] # sep
           IN <<SubSeq(s, 1, i - 1)>> \o split(SubSeq(s, i + 1, Len(s)), sep)

\* Array.prototype.pop(): the last element.
pop(a) == a[Len(a)]

\* String.prototype.toLowerCase on one character.
LowerOfChar(c) ==
    CASE c = "X" -> "x"
      [] c = "L" -> "l"
      [] c = "S" -> "s"
      [] OTHER -> c

toLowerCase(s) == [i \in 1..Len(s) |-> LowerOfChar(s[i])]

\* Array.prototype.indexOf: the first 0-based index of x, or -1.
indexOf(a, x) ==
    IF \E i \in 1..Len(a) : a[i] = x
      THEN (CHOOSE i \in 1..Len(a) : a[i] = x /\ \A j \in 1..(i - 1) : a[j] # x) - 1
      ELSE -1

AllowedExtensions == << <<"x", "l", "s", "x">>, <<"x", "l", "s">> >>

SizeAlert == "File size exceeds 10MB limit. Please choose a smaller file."
ExtensionAlert == "Please select an Excel file (xlsx or xls format)."

\* alert(msg); this.value = ''  (clearing the value empties this.files)
AlertAndClear(u, msg) == [files |-> <<>>, alerts |-> Append(u.alerts, msg)]

\* Mutant: the comparison is >= instead of >.
SizeExceedsOrEqual(file) ==
    LET fileSize == Divide(Divide(Number(file.size), Kibi), Kibi)
    IN fileSize.num >= LimitMB * fileSize.den

\* const fileSize = file.size / 1024 / 1024; fileSize > 10
SizeExceeds(file) == GreaterThan(Divide(Divide(Number(file.size), Kibi), Kibi), LimitMB)

\* Mutant: the extension is compared as written, without toLowerCase().
extensionCaseSensitive(file) == pop(split(file.name, "."))

\* const extension = file.name.split('.').pop().toLowerCase()
extension(file) == toLowerCase(pop(split(file.name, ".")))

\* ['xlsx', 'xls'].indexOf(extension) === -1
ExtensionRefused(file) == indexOf(AllowedExtensions, extension(file)) = -1

\* if (fileSize > 10) { alert; clear }
SizeCheck(u, file) == IF SizeExceeds(file) THEN AlertAndClear(u, SizeAlert) ELSE u

\* if (indexOf(extension) === -1) { alert; clear }
ExtensionCheck(u, file) ==
    IF ExtensionRefused(file) THEN AlertAndClear(u, ExtensionAlert) ELSE u

\* Mutant: the extension check is an else-branch of the size check.
ChangeHandlerElseIf(u) ==
    IF Len(u.files) = 0
      THEN u
      ELSE LET file == u.files[1]
           IN IF SizeExceeds(file) THEN SizeCheck(u, file) ELSE ExtensionCheck(u, file)

\* The change handler: file is read once, before either check.
ChangeHandler(u) ==
    IF Len(u.files) = 0
      THEN u
      ELSE LET file == u.files[1]
           IN ExtensionCheck(SizeCheck(u, file), file)

----------------------------------------------------------------------------
\* Event dispatch.

\* The listener the ready callback attaches for event ev, applied to the part
\* s of the DOM it works on; target is the form of a submit event.
Listener(ev, target, s) ==
    CASE ev = "sidebarCollapse" -> SidebarHandler(s)
      [] ev = "input" -> InsuranceCodeHandler(s)
      [] ev = "submit" -> SubmitHandler(s, target)
      [] ev = "toggle-password" -> ToggleHandler(s)
      [] ev = "change" -> ChangeHandler(s)

\* Every run of the ready callback attaches the listeners once more (.on adds,
\* it does not replace): with n attached, an event runs the listener n times.
RECURSIVE Dispatch(_, _, _, _)
Dispatch(ev, target, n, s) ==
    IF n = 0 THEN s ELSE Dispatch(ev, target, n - 1, Listener(ev, target, s))

\* The ready callback: attaches the five listeners and initialises the tables.
ReadyCallback(max) ==
    /\ ready < max
    /\ ready' = ready + 1
    /\ dataTable' = EachTable(dataTable, 1)
    /\ last' = [ev |-> "ready", arg |-> 0, pre |-> dataTable]
    /\ UNCHANGED <<sidebar, content, insuranceCode, btn, pw, upload>>

\* jQuery runs the callback once, when the document is parsed.
Ready == ReadyCallback(1)

\* The callback invoked again (the script included twice, or called by hand).
ReadyAgain == ready >= 1 /\ ReadyCallback(MaxReady)

SidebarClick ==
    /\ ready >= 1
    /\ LET s == Dispatch("sidebarCollapse", 0, ready, [sidebar |-> sidebar, content |-> content])
       IN /\ sidebar' = s.sidebar
          /\ content' = s.content
    /\ last' = [ev |-> "sidebarCollapse", arg |-> 0, pre |-> <<sidebar, content>>]
    /\ UNCHANGED <<ready, dataTable, insuranceCode, btn, pw, upload>>

\* The user edits the field to hold v (typing, deleting, pasting); the browser
\* then dispatches 'input'.
InsuranceCodeInput(v) ==
    /\ ready >= 1
    /\ insuranceCode' = Dispatch("input", 0, ready, v)
    /\ last' = [ev |-> "input", arg |-> v, pre |-> 0]
    /\ UNCHANGED <<ready, sidebar, content, dataTable, btn, pw, upload>>

Submit(f) ==
    /\ ready >= 1
    /\ btn' = Dispatch("submit", f, ready, btn)
    /\ last' = [ev |-> "submit", arg |-> f, pre |-> btn]
    /\ UNCHANGED <<ready, sidebar, content, dataTable, insuranceCode, pw, upload>>

TogglePassword ==
    /\ ready >= 1
    /\ pw' = Dispatch("toggle-password", 0, ready, pw)
    /\ last' = [ev |-> "toggle-password", arg |-> 0, pre |-> pw]
    /\ UNCHANGED <<ready, sidebar, content, dataTable, insuranceCode, btn, upload>>

\* The user leaves the picker with selection sel (empty when cancelled); the
\* browser stores it in this.files and dispatches 'change'.
Change(sel) ==
    /\ ready >= 1
    /\ upload' = Dispatch("change", 0, ready, [files |-> sel, alerts |-> <<>>])
    /\ last' = [ev |-> "change", arg |-> sel, pre |-> 0]
    /\ UNCHANGED <<ready, sidebar, content, dataTable, insuranceCode, btn, pw>>

----------------------------------------------------------------------------
\* The page and its behaviours.

\* The DOM as the server renders it (the selectors' HTML contract): sidebar
\* and content expanded or collapsed together, plain tables, an empty
\* insurance code, enabled submit buttons, a masked password with the eye
\* icon, no file selected.
PageMarkup ==
    /\ \E c \in BOOLEAN : sidebar = c /\ content = c
    /\ dataTable = [t \in Tables |-> <<>>]
    /\ insuranceCode = <<>>
    /\ btn = [b \in Buttons |-> [disabled |-> FALSE, html |-> "Submit"]]
    /\ pw = [type |-> "password", icon |-> {"fa-eye"}]
    /\ upload = [files |-> <<>>, alerts |-> <<>>]

Init ==
    /\ ready = 0
    /\ PageMarkup
    /\ last = [ev |-> "load", arg |-> 0, pre |-> 0]

\* What the user can leave in the insurance code field.
CodeStrings == StringsUpTo(Typed, MaxLen)

Events ==
    \/ SidebarClick
    \/ \E v \in CodeStrings : InsuranceCodeInput(v)
    \/ \E f \in Forms : Submit(f)
    \/ TogglePassword
    \/ \E sel \in FileList : Change(sel)

Next == Ready \/ Events

Spec == Init /\ [][Next]_vars

\* The same page when the ready callback may be invoked more than once.
NextReinit == Next \/ ReadyAgain

SpecReinit == Init /\ [][NextReinit]_vars

----------------------------------------------------------------------------
\* Vocabulary of the properties.

Range(a) == {a[i] : i \in 1..Len(a)}

\* 10 MiB in bytes (10485760).
TenMiB == 10 * 1024 * 1024

\* The last dispatch was a change event with a file selected.
ChangeWithFile == last.ev = "change" /\ Len(last.arg) = 1

SameIgnoringCase(s, t) ==
    Len(s) = Len(t) /\ \A i \in 1..Len(s) : LowerOfChar(s[i]) = LowerOfChar(t[i])

\* The name has a '.', and what follows its last '.' is xlsx or xls in any case.
\* A name without a '.' has no extension.
HasExcelExtension(name) ==
    \E i \in 1..Len(name) :
        /\ name[i] = "."
        /\ \A j \in (i + 1)..Len(name) : name[j] # "."
        /\ \E e \in Range(AllowedExtensions) :
              SameIgnoringCase(SubSeq(name, i + 1, Len(name)), e)

\* Letters of general category Ll among the characters of the model.
LowerCaseLetters == {"a", "kra"}

\* The upper-case transform of a string of the model's characters, character
\* by character: "a" has the upper-case form "A", the others have none.
UpperCased(s) == [i \in 1..Len(s) |-> IF s[i] = "a" THEN "A" ELSE s[i]]

----------------------------------------------------------------------------
\* C1: after every click on #sidebarCollapse, and in every state of the page,
\* 'collapsed' is on both #sidebar and #content or on neither.
C1_SidebarAndContentAgree == sidebar = content

\* C1 witness: a click has just collapsed both.
C1_Witness == last.ev = "sidebarCollapse" /\ sidebar /\ content /\ ~last.pre[1]

\* C2: after a change event with a file of s bytes, the size alert was shown
\* and the selection is empty exactly when s / 1024 / 1024 > 10; 10485760
\* bytes are not refused by the size rule and 10485761 bytes are.
C2_SizeRule ==
    ChangeWithFile =>
        LET s == last.arg[1].size
            refused == SizeAlert \in Range(upload.alerts) /\ upload.files = <<>>
        IN /\ refused <=> s > TenMiB
           /\ s = TenMiB => SizeAlert \notin Range(upload.alerts)
           /\ s = TenMiB + 1 => refused

\* C2 witness: a file of 10485761 bytes was refused for its size.
C2_Witness ==
    /\ ChangeWithFile
    /\ last.arg[1].size = TenMiB + 1
    /\ SizeAlert \in Range(upload.alerts)
    /\ upload.files = <<>>

\* C3 (as claimed): after a change event with a file, the extension alert was
\* shown and the selection is empty exactly when the part of the name after
\* its last '.', compared ignoring case, is neither xlsx nor xls; for every
\* name, also one without any '.'.
C3_ExtensionRuleAsClaimed ==
    ChangeWithFile =>
        ((ExtensionAlert \in Range(upload.alerts) /\ upload.files = <<>>)
            <=> ~HasExcelExtension(last.arg[1].name))

\* C4: both checks are evaluated for a selected file: the alerts of one change
\* event are the size alert if the size check fails, followed by the extension
\* alert if the extension check fails, and nothing else; the selection ends
\* empty when either failed.
C4_BothChecksRun ==
    ChangeWithFile =>
        LET f == last.arg[1]
            size == IF SizeExceeds(f) THEN <<SizeAlert>> ELSE <<>>
            ext == IF ExtensionRefused(f) THEN <<ExtensionAlert>> ELSE <<>>
        IN /\ upload.alerts = size \o ext
           /\ (SizeExceeds(f) /\ ExtensionRefused(f)) =>
                 (upload.alerts = <<SizeAlert, ExtensionAlert>> /\ upload.files = <<>>)
           /\ (SizeExceeds(f) # ExtensionRefused(f)) => Len(upload.alerts) = 1
           /\ (SizeExceeds(f) \/ ExtensionRefused(f)) => upload.files = <<>>

\* C4 witness: a file failing both checks raised the two alerts in order.
C4_Witness ==
    /\ ChangeWithFile
    /\ last.arg[1].size > TenMiB
    /\ ~HasExcelExtension(last.arg[1].name)
    /\ upload.alerts = <<SizeAlert, ExtensionAlert>>
    /\ upload.files = <<>>

\* C5: a change event with no file selected, or with a file of at most 10 MiB
\* whose extension is xlsx or xls, shows no alert and leaves the selection as
\* the user made it.
C5_NoAlertWhenValid ==
    (/\ last.ev = "change"
     /\ \/ last.arg = <<>>
        \/ /\ Len(last.arg) = 1
           /\ last.arg[1].size <= TenMiB
           /\ HasExcelExtension(last.arg[1].name))
    => (upload.alerts = <<>> /\ upload.files = last.arg)

\* C5 witness: a 10 MiB file with an upper-case Excel extension was retained.
C5_Witness ==
    /\ ChangeWithFile
    /\ last.arg[1] = [name |-> <<"a", ".", "X", "L", "S">>, size |-> TenMiB]
    /\ upload.files = last.arg
    /\ upload.alerts = <<>>

\* C6: right after a submit event on a form its submit buttons are disabled
\* and show the processing indicator while the buttons of other forms are as
\* before; and no step of the page re-enables a disabled button or changes
\* its label.
C6_SubmitDisablesForGood ==
    /\ [](last.ev = "submit" =>
            \A b \in Buttons :
                IF b[1] = last.arg
                  THEN btn[b].disabled /\ btn[b].html = ProcessingHtml
                  ELSE btn[b] = last.pre[b])
    /\ [][\A b \in Buttons : btn[b].disabled => btn'[b] = btn[b]]_vars

\* C6 witness: after a submit and a later event of another kind, one form's
\* buttons are disabled and another form's are still enabled.
C6_Witness ==
    /\ last.ev \notin {"submit", "load", "ready"}
    /\ \E f, g \in Forms :
          /\ \A b \in Buttons : b[1] = f => btn[b].disabled /\ btn[b].html = ProcessingHtml
          /\ \A b \in Buttons : b[1] = g => ~btn[b].disabled /\ btn[b].html = "Submit"

\* C7: each click on .toggle-password changes the input's type between
\* 'password' and 'text' and the icon between 'fa-eye' and 'fa-eye-slash';
\* type and icon stay paired as in the markup, and two further clicks bring
\* both back.
C7_ToggleAlternates ==
    /\ pw.type \in {"password", "text"}
    /\ pw.icon = (IF pw.type = "password" THEN {"fa-eye"} ELSE {"fa-eye-slash"})
    /\ last.ev = "toggle-password" =>
          (pw.type # last.pre.type /\ pw.icon # last.pre.icon)
    /\ ToggleHandler(ToggleHandler(pw)) = pw

\* C7 witness: a second click has restored the masked input and the eye icon.
C7_Witness ==
    /\ last.ev = "toggle-password"
    /\ last.pre = [type |-> "text", icon |-> {"fa-eye-slash"}]
    /\ pw = [type |-> "password", icon |-> {"fa-eye"}]

\* C8: once the initialiser has run, however often, every table has had
\* DataTable applied exactly once, with page length 10 and responsive layout;
\* a run never initialises a table that was a DataTable before it.
C8_TablesEnhancedOnce ==
    /\ ready >= 1 =>
          \A t \in Tables :
              /\ Len(dataTable[t]) = 1
              /\ dataTable[t][1].pageLength = 10
              /\ dataTable[t][1].responsive
    /\ last.ev = "ready" =>
          \A t \in Tables : Len(last.pre[t]) > 0 => dataTable[t] = last.pre[t]

\* C8 witness: the initialiser has just run a second time.
C8_Witness ==
    /\ ready >= 2
    /\ last.ev = "ready"
    /\ \A t \in Tables : Len(last.pre[t]) = 1 /\ Len(dataTable[t]) = 1

\* C9 (as claimed): after an input event the value is the upper-case
\* transform of the value before it, holds no lower-case letter, and is left
\* unchanged by the handler.
C9_UpperCaseAsClaimed ==
    /\ last.ev = "input" => insuranceCode = UpperCased(last.arg)
    /\ Range(insuranceCode) \cap LowerCaseLetters = {}
    /\ InsuranceCodeHandler(insuranceCode) = insuranceCode

\* C9 (amended): after an input event the value is the upper-case transform of
\* the value before it, holds no character that toUpperCase changes (so no
\* lower-case letter that has an upper-case form), and is left unchanged by
\* the handler.
C9_UpperCase ==
    /\ last.ev = "input" => insuranceCode = UpperCased(last.arg)
    /\ \A c \in Range(insuranceCode) : UpperOfChar(c) = <<c>>
    /\ "a" \notin Range(insuranceCode)
    /\ InsuranceCodeHandler(insuranceCode) = insuranceCode

\* C9 witness: "a" followed by U+0138 was typed; the field holds "A" and U+0138.
C9_Witness ==
    /\ last.ev = "input"
    /\ last.arg = <<"a", "kra">>
    /\ insuranceCode = <<"A", "kra">>

\* C10 (as claimed): the file input holds nothing, or a file of at most 10 MiB
\* whose extension is xlsx or xls, after every sequence of change events and
\* so at every submit.
C10_RetainedFileIsValid ==
    \/ upload.files = <<>>
    \/ /\ upload.files[1].size <= TenMiB
       /\ HasExcelExtension(upload.files[1].name)

====
